---- MODULE Spec2Model ----
(***************************************************************************)
(* Model of src/tic-tac-toe.py: nine tic-tac-toe instances arranged in a   *)
(* 3x3 meta-game, bots that move by fill_cell (offense, defense, random),  *)
(* and the drivers play_meta_game_bots and play_meta_game.                 *)
(*                                                                         *)
(* An array is a function from cell indices <<i, j>> to integers.  Every   *)
(* call of the random module is a choice over all the values it can        *)
(* return.  A routine whose result depends on such choices is an operator  *)
(* that yields the set of all its possible results.                        *)
(***************************************************************************)
EXTENDS Integers, FiniteSets, Sequences, TLC

\* The locals of play_meta_game_bots (lines 309-329), its position pc and the
\* Player it returns.  Two auxiliary variables: board_before is the instance
\* as it was passed to the last fill_cell call, budget the number of fill_cell
\* calls still to be explored.
VARIABLES meta_board, meta_board_results, current_player, current_board_pos,
          status, pc, winner, board_before, budget

vars == <<meta_board, meta_board_results, current_player, current_board_pos,
          status, pc, winner, board_before, budget>>

\* fill_cell calls explored from the construction state, and from a recorded
\* late position of a game.
OpeningMoves == 1
EndgameMoves == 4

----------------------------------------------------------------------------
\* Data

Size == 3
Idx == 0 .. (Size - 1)
Cells == Idx \X Idx

P1 == 1
P2 == -1
None == 0
Tracker == 101

Marks == {0, P1, P2}

\* A 3x3 array written row by row, and the 3x3x3x3 meta_board written
\* instance by instance.
Grid(s) == [c \in Cells |-> s[Size * c[1] + c[2] + 1]]
Meta(s) == [p \in Cells |-> s[Size * p[1] + p[2] + 1]]

create_board == [c \in Cells |-> 0]

find_available_cells(instance_board) == {c \in Cells : instance_board[c] = 0}

\* The cells the call can return; the empty set stands for None.
pick_cell_randomly(instance_board) == find_available_cells(instance_board)

assign_cell(instance_board, cell_indices, value) ==
  [instance_board EXCEPT ![cell_indices] = value]

\* Variant of check_winner: the anti-diagonal of line 119 pairs i with i, so
\* that the main diagonal is tested twice.
check_winner_one_diagonal(instance_board, player_val) ==
  LET row_check == \E i \in Idx : \A j \in Idx : instance_board[<<i, j>>] = player_val
      column_check == \E j \in Idx : \A i \in Idx : instance_board[<<i, j>>] = player_val
      diagonal_check ==
        \/ \A i \in Idx : instance_board[<<i, i>>] = player_val
        \/ \A i \in Idx : instance_board[<<i, i>>] = player_val
  IN  row_check \/ column_check \/ diagonal_check

check_winner(instance_board, player_val) ==
  LET row_check == \E i \in Idx : \A j \in Idx : instance_board[<<i, j>>] = player_val
      column_check == \E j \in Idx : \A i \in Idx : instance_board[<<i, j>>] = player_val
      diagonal_check ==
        \/ \A i \in Idx : instance_board[<<i, Size - 1 - i>>] = player_val
        \/ \A i \in Idx : instance_board[<<i, i>>] = player_val
  IN  row_check \/ column_check \/ diagonal_check

is_board_complete(instance_board) == \A c \in Cells : instance_board[c] # 0

----------------------------------------------------------------------------
\* The move policy.  A search runs on a pair of arrays: real is the caller's
\* instance_board, copy is board_copy.  The loops are followed for all orders
\* of random picks at once: runs holds every pair the loop head can see after
\* the same number of failed tries.

\* Variant of random_move: a cell is assigned only when more than one is
\* available, so that a last Empty cell is never filled.
random_move_last(instance_board, player) ==
  LET cells_picked == pick_cell_randomly(instance_board)
  IN  IF Cardinality(cells_picked) > 1
      THEN {<<assign_cell(instance_board, c, player), TRUE>> : c \in cells_picked}
      ELSE {<<instance_board, FALSE>>}

random_move(instance_board, player) ==
  LET cells_picked == pick_cell_randomly(instance_board)
  IN  IF cells_picked # {}
      THEN {<<assign_cell(instance_board, c, player), TRUE>> : c \in cells_picked}
      ELSE {<<instance_board, FALSE>>}

defensive_start(instance_board) == [real |-> instance_board, copy |-> instance_board]

\* Variant of defensive_try: a failed try is not overwritten with the tracker
\* value, the opponent's hypothetical mark stays on the scratch copy.
defensive_try_keep(r, c, player) ==
  LET opponent_player == IF player = 1 THEN P2 ELSE P1
      tried == assign_cell(r.copy, c, opponent_player)
  IN  IF check_winner(tried, opponent_player)
      THEN [done |-> TRUE, real |-> assign_cell(r.real, c, player), copy |-> tried]
      ELSE [done |-> FALSE, real |-> r.real, copy |-> tried]

defensive_try(r, c, player) ==
  LET opponent_player == IF player = 1 THEN P2 ELSE P1
      tried == assign_cell(r.copy, c, opponent_player)
  IN  IF check_winner(tried, opponent_player)
      THEN [done |-> TRUE, real |-> assign_cell(r.real, c, player), copy |-> tried]
      ELSE [done |-> FALSE, real |-> r.real, copy |-> assign_cell(tried, c, Tracker)]

RECURSIVE defensive_loop(_, _)
defensive_loop(runs, player) ==
  LET exhausted == {r \in runs : pick_cell_randomly(r.copy) = {}}
      steps == UNION {{defensive_try(r, c, player) : c \in pick_cell_randomly(r.copy)} : r \in runs}
      again == {[real |-> s.real, copy |-> s.copy] : s \in {t \in steps : ~t.done}}
  IN  {<<s.real, TRUE>> : s \in {t \in steps : t.done}}
        \cup {<<r.real, FALSE>> : r \in exhausted}
        \cup (IF again = {} THEN {} ELSE defensive_loop(again, player))

defensive_move(instance_board, player) ==
  defensive_loop({defensive_start(instance_board)}, player)

offensive_start(instance_board) == [real |-> instance_board, copy |-> instance_board]

\* Variant of offensive_try: board_copy is the caller's array itself (no
\* .copy()), so every write of the search lands on the real board.
offensive_try_nocopy(r, c, player) ==
  LET tried == assign_cell(r.real, c, player)
  IN  IF check_winner(tried, player)
      THEN [done |-> TRUE, real |-> tried, copy |-> tried]
      ELSE [done |-> FALSE, real |-> assign_cell(tried, c, Tracker),
            copy |-> assign_cell(tried, c, Tracker)]

offensive_try(r, c, player) ==
  LET tried == assign_cell(r.copy, c, player)
  IN  IF check_winner(tried, player)
      THEN [done |-> TRUE, real |-> assign_cell(r.real, c, player), copy |-> tried]
      ELSE [done |-> FALSE, real |-> r.real, copy |-> assign_cell(tried, c, Tracker)]

\* Variant of offensive_loop: `if` for `while`, the search gives up after the
\* first try that does not win.
offensive_loop_once(runs, player) ==
  LET exhausted == {r \in runs : pick_cell_randomly(r.copy) = {}}
      steps == UNION {{offensive_try(r, c, player) : c \in pick_cell_randomly(r.copy)} : r \in runs}
  IN  {<<s.real, s.done>> : s \in steps} \cup {<<r.real, FALSE>> : r \in exhausted}

RECURSIVE offensive_loop(_, _)
offensive_loop(runs, player) ==
  LET exhausted == {r \in runs : pick_cell_randomly(r.copy) = {}}
      steps == UNION {{offensive_try(r, c, player) : c \in pick_cell_randomly(r.copy)} : r \in runs}
      again == {[real |-> s.real, copy |-> s.copy] : s \in {t \in steps : ~t.done}}
  IN  {<<s.real, TRUE>> : s \in {t \in steps : t.done}}
        \cup {<<r.real, FALSE>> : r \in exhausted}
        \cup (IF again = {} THEN {} ELSE offensive_loop(again, player))

offensive_move(instance_board, player) ==
  offensive_loop({offensive_start(instance_board)}, player)

\* Variant of fill_cell: the else of line 209 is missing its guard, a successful
\* defensive move is followed by random_move.
fill_cell_fallthrough(instance_board, player) ==
  LET off == offensive_move(instance_board, player)
      randoms(b) == {<<r[1], IF r[2] THEN "RANDOM" ELSE "FULL">> : r \in random_move(b, player)}
      defenses(b) ==
        LET def == defensive_move(b, player)
        IN  UNION {{<<r[1], "DEFENSE">> : r \in random_move(d[1], player)} : d \in {e \in def : e[2]}}
              \cup UNION {randoms(d[1]) : d \in {e \in def : ~e[2]}}
  IN  {<<o[1], "OFFENSE">> : o \in {e \in off : e[2]}}
        \cup UNION {defenses(o[1]) : o \in {e \in off : ~e[2]}}

\* Variant of fill_cell: the defensive search is made before the offensive one.
fill_cell_defense_first(instance_board, player) ==
  LET def == defensive_move(instance_board, player)
      randoms(b) == {<<r[1], IF r[2] THEN "RANDOM" ELSE "FULL">> : r \in random_move(b, player)}
      offenses(b) ==
        LET off == offensive_move(b, player)
        IN  {<<o[1], "OFFENSE">> : o \in {e \in off : e[2]}}
              \cup UNION {randoms(o[1]) : o \in {e \in off : ~e[2]}}
  IN  {<<d[1], "DEFENSE">> : d \in {e \in def : e[2]}}
        \cup UNION {offenses(d[1]) : d \in {e \in def : ~e[2]}}

\* The possible <<instance_board afterwards, Status>> of one call.
fill_cell(instance_board, player) ==
  LET off == offensive_move(instance_board, player)
      randoms(b) == {<<r[1], IF r[2] THEN "RANDOM" ELSE "FULL">> : r \in random_move(b, player)}
      defenses(b) ==
        LET def == defensive_move(b, player)
        IN  {<<d[1], "DEFENSE">> : d \in {e \in def : e[2]}}
              \cup UNION {randoms(d[1]) : d \in {e \in def : ~e[2]}}
  IN  {<<o[1], "OFFENSE">> : o \in {e \in off : e[2]}}
        \cup UNION {defenses(o[1]) : o \in {e \in off : ~e[2]}}

----------------------------------------------------------------------------
\* The meta-game.

\* Variant of choose_player: line 234 returns P2 as line 232 does.
choose_player_always_P2(player) ==
  IF player # None
  THEN (IF player = 1 THEN {P2} ELSE {P2})
  ELSE {P1, P2}

choose_player(player) ==
  IF player # None
  THEN (IF player = 1 THEN {P2} ELSE {P1})
  ELSE {P1, P2}

\* Variant of update_meta_results: the two indices of board_pos are swapped.
update_meta_results_transposed(results, board_pos, player) ==
  [results EXCEPT ![<<board_pos[2], board_pos[1]>>] = player]

update_meta_results(results, board_pos, player) == [results EXCEPT ![board_pos] = player]

\* Variant of reset_board: the nine instances are one shared array, so that
\* replacing one replaces all.
reset_board_all(board, results, board_pos) ==
  <<[p \in Cells |-> create_board], [results EXCEPT ![board_pos] = 0]>>

reset_board(board, results, board_pos) ==
  <<[board EXCEPT ![board_pos] = create_board], [results EXCEPT ![board_pos] = 0]>>

----------------------------------------------------------------------------
\* Positions of bot-vs-bot games, each recorded at the test of the while loop
\* (line 317) with the last fill_cell call not yet resolved.  board_before is
\* the chosen instance as it was when that call was made.  Each position is
\* the state of play_meta_game_bots in the run started with random.seed(s)
\* after n calls of fill_cell.
\*   PositionA (s = 0, n = 60): eight instances decided, no meta line; the
\*              open instance holds a winning cell for the player to move,
\*              whose claim fills the top meta row.
\*   PositionB (s = 9, n = 83): eight instances decided; the claim of the
\*              ninth completes no meta line.
\*   PositionC (s = 0, n = 42): the game of PositionA, earlier; the only open
\*              instance is full without a line.
\*   PositionD (s = 2, n = 53): three open instances, one of them holding a
\*              winning cell whose claim completes a meta line.

PositionA ==
  [meta_board |-> Meta(<<
       Grid(<<-1,  0,  1,  0, -1,  0,  1,  0, -1>>),
       Grid(<< 1,  1, -1,  0, -1,  0,  1,  1, -1>>),
       Grid(<< 0,  0, -1,  0,  0, -1,  0,  0, -1>>),
       Grid(<<-1, -1, -1,  0,  0,  0,  0,  0,  0>>),
       Grid(<< 1,  1,  1,  0,  0,  0,  0,  0, -1>>),
       Grid(<< 0,  0,  0,  0,  0,  0,  1,  1,  1>>),
       Grid(<< 0,  1,  0,  0,  1,  0,  0,  1,  0>>),
       Grid(<<-1,  1,  0,  1, -1,  1,  0,  0, -1>>),
       Grid(<< 1,  0, -1,  1, -1, -1,  0,  0, -1>>)>>),
   meta_board_results |-> Grid(<<-1,  0, -1, -1,  1,  1,  1, -1, -1>>),
   current_player |-> 1, current_board_pos |-> <<0, 1>>, status |-> "DEFENSE",
   board_before |-> Grid(<< 1,  1, -1,  0, -1,  0,  0,  1, -1>>)]

PositionB ==
  [meta_board |-> Meta(<<
       Grid(<<-1,  1,  1,  0, -1,  1, -1,  0, -1>>),
       Grid(<< 1,  0, -1,  0,  1, -1,  0, -1,  1>>),
       Grid(<<-1,  1, -1,  1,  1,  1, -1, -1,  1>>),
       Grid(<< 0,  0,  1,  1,  1,  1, -1,  0,  0>>),
       Grid(<< 0, -1,  0,  1, -1,  1,  0, -1,  0>>),
       Grid(<< 0,  1,  0, -1,  1, -1, -1, -1, -1>>),
       Grid(<<-1, -1,  1, -1,  0,  0, -1,  1,  0>>),
       Grid(<< 0,  1, -1,  0,  1,  0,  0,  1,  0>>),
       Grid(<< 1,  0,  1, -1,  1, -1, -1,  0, -1>>)>>),
   meta_board_results |-> Grid(<<-1,  1,  1,  1, -1, -1, -1,  1,  0>>),
   current_player |-> -1, current_board_pos |-> <<2, 2>>, status |-> "DEFENSE",
   board_before |-> Grid(<< 1,  0,  1, -1,  1, -1,  0,  0, -1>>)]

PositionC ==
  [meta_board |-> Meta(<<
       Grid(<<-1,  0,  1,  0, -1,  0,  1,  0, -1>>),
       Grid(<< 1, -1, -1, -1,  1,  1,  1,  1, -1>>),
       Grid(<< 0,  0, -1,  0,  0, -1,  0,  0, -1>>),
       Grid(<<-1, -1, -1,  0,  0,  0,  0,  0,  0>>),
       Grid(<< 1,  1,  1,  0,  0,  0,  0,  0, -1>>),
       Grid(<< 0,  0,  0,  0,  0,  0,  1,  1,  1>>),
       Grid(<< 0,  1,  0,  0,  1,  0,  0,  1,  0>>),
       Grid(<<-1,  1,  0,  1, -1,  1,  0,  0, -1>>),
       Grid(<< 1,  0, -1,  1, -1, -1,  0,  0, -1>>)>>),
   meta_board_results |-> Grid(<<-1,  0, -1, -1,  1,  1,  1, -1, -1>>),
   current_player |-> 1, current_board_pos |-> <<0, 1>>, status |-> "RANDOM",
   board_before |-> Grid(<< 1, -1, -1, -1,  1,  1,  0,  1, -1>>)]

PositionD ==
  [meta_board |-> Meta(<<
       Grid(<< 1,  0,  0,  1,  1, -1, -1,  0,  1>>),
       Grid(<< 0, -1,  0,  0, -1,  0,  0, -1,  0>>),
       Grid(<<-1,  1,  1,  1, -1,  0,  0,  1,  1>>),
       Grid(<<-1,  1,  1,  0,  1,  0, -1, -1, -1>>),
       Grid(<<-1,  0,  0,  0, -1,  1,  0,  0, -1>>),
       Grid(<< 1,  1,  1,  1, -1,  1,  0,  1, -1>>),
       Grid(<<-1,  0,  1,  1, -1,  1, -1,  0,  0>>),
       Grid(<<-1,  1, -1,  0,  1,  0, -1, -1,  1>>),
       Grid(<<-1,  1,  0,  0, -1,  0,  0,  1, -1>>)>>),
   meta_board_results |-> Grid(<< 1, -1,  0, -1, -1,  1,  0,  0, -1>>),
   current_player |-> 1, current_board_pos |-> <<2, 0>>, status |-> "DEFENSE",
   board_before |-> Grid(<<-1,  0,  0,  1, -1,  1, -1,  0,  0>>)]

RecordedPositions == {PositionA, PositionB, PositionC, PositionD}

----------------------------------------------------------------------------
\* State after lines 309-310 of play_meta_game_bots, or a recorded position.

Init ==
  \/ /\ meta_board = [p \in Cells |-> create_board]
     /\ meta_board_results = [p \in Cells |-> 0]
     /\ current_player = None
     /\ current_board_pos = <<0, 0>>
     /\ status = "None"
     /\ pc = "choose_player"
     /\ winner = None
     /\ board_before = create_board
     /\ budget = OpeningMoves
  \/ \E r \in RecordedPositions :
       /\ meta_board = r.meta_board
       /\ meta_board_results = r.meta_board_results
       /\ current_player = r.current_player
       /\ current_board_pos = r.current_board_pos
       /\ status = r.status
       /\ pc = "while"
       /\ winner = None
       /\ board_before = r.board_before
       /\ budget = EndgameMoves

\* Lines 312 and 326.
ChoosePlayer ==
  /\ pc = "choose_player"
  /\ current_player' \in choose_player(current_player)
  /\ pc' = "choose_board"
  /\ UNCHANGED <<meta_board, meta_board_results, current_board_pos, status,
                 winner, board_before, budget>>

\* Variant of choose_board: the reset of lines 251-253 is missing.
choose_board_no_reset ==
  /\ pc = "choose_board"
  /\ \E x \in Idx, y \in Idx :
       IF meta_board_results[<<x, y>>] = 0
       THEN current_board_pos' = <<x, y>> /\ pc' = "fill_cell"
       ELSE UNCHANGED <<current_board_pos, pc>>
  /\ UNCHANGED <<meta_board, meta_board_results, current_player, status, winner,
                 board_before, budget>>

\* Variant of choose_board: the drawn position is reset whenever it is
\* decided, not only when all nine meta-results are non-zero.
choose_board_reset_decided ==
  /\ pc = "choose_board"
  /\ \E x \in Idx, y \in Idx :
       LET r == IF meta_board_results[<<x, y>>] # 0
                THEN reset_board(meta_board, meta_board_results, <<x, y>>)
                ELSE <<meta_board, meta_board_results>>
           current_choice == r[2][<<x, y>>]
       IN  /\ meta_board' = r[1]
           /\ meta_board_results' = r[2]
           /\ IF current_choice = 0
              THEN current_board_pos' = <<x, y>> /\ pc' = "fill_cell"
              ELSE UNCHANGED <<current_board_pos, pc>>
  /\ UNCHANGED <<current_player, status, winner, board_before, budget>>

\* Variant of choose_board: the test of line 254 is missing, the drawn
\* position is returned whether it is decided or not.
choose_board_any ==
  /\ pc = "choose_board"
  /\ \E x \in Idx, y \in Idx :
       LET r == IF is_board_complete(meta_board_results)
                THEN reset_board(meta_board, meta_board_results, <<x, y>>)
                ELSE <<meta_board, meta_board_results>>
       IN  /\ meta_board' = r[1]
           /\ meta_board_results' = r[2]
           /\ current_board_pos' = <<x, y>>
           /\ pc' = "fill_cell"
  /\ UNCHANGED <<current_player, status, winner, board_before, budget>>

\* One activation of choose_board (lines 250-257); the recursive call of line
\* 257 is the next activation.
choose_board ==
  /\ pc = "choose_board"
  /\ \E x \in Idx, y \in Idx :
       LET r == IF is_board_complete(meta_board_results)
                THEN reset_board(meta_board, meta_board_results, <<x, y>>)
                ELSE <<meta_board, meta_board_results>>
           current_choice == r[2][<<x, y>>]
       IN  /\ meta_board' = r[1]
           /\ meta_board_results' = r[2]
           /\ IF current_choice = 0
              THEN current_board_pos' = <<x, y>> /\ pc' = "fill_cell"
              ELSE UNCHANGED <<current_board_pos, pc>>
  /\ UNCHANGED <<current_player, status, winner, board_before, budget>>

\* Lines 315 and 329.
FillCell ==
  /\ pc = "fill_cell"
  /\ budget > 0
  /\ \E o \in fill_cell(meta_board[current_board_pos], current_player) :
       /\ meta_board' = [meta_board EXCEPT ![current_board_pos] = o[1]]
       /\ status' = o[2]
  /\ board_before' = meta_board[current_board_pos]
  /\ budget' = budget - 1
  /\ pc' = "while"
  /\ UNCHANGED <<meta_board_results, current_player, current_board_pos, winner>>

\* Line 317.
WhileTest ==
  /\ pc = "while"
  /\ pc' = IF ~check_winner(meta_board_results, P1) /\ ~check_winner(meta_board_results, P2)
           THEN "resolve" ELSE "return"
  /\ UNCHANGED <<meta_board, meta_board_results, current_player, current_board_pos,
                 status, winner, board_before, budget>>

\* Variant of Resolve: the test of line 322 is missing, every move that is not
\* FULL claims the instance.
Resolve_any_move ==
  /\ pc = "resolve"
  /\ IF status = "FULL"
     THEN LET r == reset_board(meta_board, meta_board_results, current_board_pos)
          IN  meta_board' = r[1] /\ meta_board_results' = r[2]
     ELSE /\ meta_board_results' =
               update_meta_results(meta_board_results, current_board_pos, current_player)
          /\ UNCHANGED meta_board
  /\ pc' = "choose_player"
  /\ UNCHANGED <<current_player, current_board_pos, status, winner, board_before, budget>>

\* Lines 318-324.
Resolve ==
  /\ pc = "resolve"
  /\ IF status = "FULL"
     THEN LET r == reset_board(meta_board, meta_board_results, current_board_pos)
          IN  meta_board' = r[1] /\ meta_board_results' = r[2]
     ELSE IF status = "OFFENSE"
          THEN /\ meta_board_results' =
                    update_meta_results(meta_board_results, current_board_pos, current_player)
               /\ UNCHANGED meta_board
          ELSE UNCHANGED <<meta_board, meta_board_results>>
  /\ pc' = "choose_player"
  /\ UNCHANGED <<current_player, current_board_pos, status, winner, board_before, budget>>

\* Lines 331-334.
Return ==
  /\ pc = "return"
  /\ winner' = IF check_winner(meta_board_results, P2) THEN P2 ELSE P1
  /\ pc' = "done"
  /\ UNCHANGED <<meta_board, meta_board_results, current_player, current_board_pos,
                 status, board_before, budget>>

play_meta_game_bots == ChoosePlayer \/ choose_board \/ FillCell \/ WhileTest \/ Resolve \/ Return

Next == play_meta_game_bots

Spec == Init /\ [][Next]_vars

\* The game with fair draws in choose_board: random.choice (line 250) gives
\* every position a positive chance at every activation, so a draw that makes
\* choose_board return is not avoided forever.
LiveSpec == Spec /\ WF_vars(choose_board)

----------------------------------------------------------------------------
\* fill_cell alone, called on every array of marks for either player.

AllBoards == [Cells -> Marks]

FillInit ==
  /\ \E b \in AllBoards : meta_board = [p \in Cells |-> IF p = <<0, 0>> THEN b ELSE create_board]
  /\ meta_board_results = [p \in Cells |-> 0]
  /\ current_player \in {P1, P2}
  /\ current_board_pos = <<0, 0>>
  /\ status = "None"
  /\ pc = "fill_cell"
  /\ winner = None
  /\ board_before = create_board
  /\ budget = 1

FillSpec == FillInit /\ [][FillCell]_vars

\* check_winner alone, as the while test and the return apply it (lines 317
\* and 331), on every 3x3 array of marks and tracker values.
AllGrids == [Cells -> Marks \cup {Tracker}]

WinnerInit ==
  /\ meta_board = [p \in Cells |-> create_board]
  /\ meta_board_results \in AllGrids
  /\ current_player = None
  /\ current_board_pos = <<0, 0>>
  /\ status = "None"
  /\ pc = "while"
  /\ winner = None
  /\ board_before = create_board
  /\ budget = 0

WinnerSpec == WinnerInit /\ [][WhileTest \/ Return]_vars

----------------------------------------------------------------------------
\* play_meta_game (lines 337-390): a human against the bot.  The human types
\* the coordinates of an instance and of a cell; the bot answers by
\* choose_board and fill_cell.  current_player is not used by this driver and
\* keeps its value; board_before is the instance as it was before the last
\* write, budget the number of writes (human moves and fill_cell calls) still
\* to be explored.

human_player == P1
bot_player == P2

\* Writes explored from a recorded position of a game against a human.
HumanMoves == 2

\* The digits a coordinate is read from (lines 357-358 and 364): the indices
\* of the arrays and one digit beyond them.
Digits == 0 .. Size

\* Three positions recorded at line 356 of games of the program in which the
\* human typed an empty cell of an undecided instance at every turn.
PositionE ==
  [meta_board |-> Meta(<<
       Grid(<< 0,  0, -1,  1, -1,  0,  1, -1,  0>>),
       Grid(<<-1,  0,  0, -1,  0,  0, -1,  1,  0>>),
       Grid(<< 0,  0, -1,  0,  0, -1,  1,  0, -1>>),
       Grid(<< 1,  1,  1,  1, -1, -1, -1,  1,  0>>),
       Grid(<< 1, -1,  1, -1, -1,  1,  1,  1, -1>>),
       Grid(<< 1,  1,  1,  0,  0,  1,  0,  0, -1>>),
       Grid(<< 0,  1,  1, -1, -1, -1,  0,  0,  1>>),
       Grid(<<-1,  1,  0, -1,  0,  0, -1,  1,  1>>),
       Grid(<<-1,  1, -1,  1, -1, -1,  1, -1,  1>>)>>),
   meta_board_results |-> Grid(<< 0, -1, -1,  1,  0,  1, -1, -1,  0>>)]

PositionF ==
  [meta_board |-> Meta(<<
       Grid(<< 0,  0, -1,  0, -1,  1, -1,  0,  0>>),
       Grid(<< 0,  1, -1,  0, -1,  0, -1,  1,  0>>),
       Grid(<< 1,  1,  0,  1,  1, -1,  0,  0, -1>>),
       Grid(<< 1, -1, -1, -1,  1,  1,  1,  1, -1>>),
       Grid(<< 0,  0, -1, -1,  0,  0,  1,  1,  1>>),
       Grid(<< 0,  0,  0, -1, -1, -1,  0,  0,  0>>),
       Grid(<< 1, -1, -1,  0,  1,  1,  0, -1,  1>>),
       Grid(<< 1,  1,  1,  0,  1, -1, -1, -1,  0>>),
       Grid(<<-1,  1,  1,  0, -1,  1,  0,  0, -1>>)>>),
   meta_board_results |-> Grid(<<-1, -1,  0,  0,  1, -1,  1,  1, -1>>)]

PositionG ==
  [meta_board |-> Meta(<<
       Grid(<< 1, -1,  1, -1, -1,  0, -1,  1, -1>>),
       Grid(<<-1,  0,  0, -1, -1,  0,  1,  0, -1>>),
       Grid(<<-1,  0,  1, -1, -1, -1,  0,  0,  1>>),
       Grid(<< 0,  0,  0, -1, -1, -1,  0,  1,  0>>),
       Grid(<< 0, -1,  0,  1,  1, -1,  1,  1,  1>>),
       Grid(<<-1, -1,  1, -1,  0,  1, -1,  1, -1>>),
       Grid(<< 1,  1, -1,  0,  1,  1,  0,  0, -1>>),
       Grid(<< 1,  1,  1,  1, -1,  0,  0,  1, -1>>),
       Grid(<<-1,  0,  1,  0,  0,  1,  0,  1,  1>>)>>),
   meta_board_results |-> Grid(<< 0, -1, -1, -1,  1, -1,  0,  1,  1>>)]

HumanPositions == {PositionE, PositionF, PositionG}

\* State after lines 343-347, or a recorded position at the top of the loop.
HumanInit ==
  /\ current_player = None
  /\ current_board_pos = <<0, 0>>
  /\ status = "None"
  /\ pc = "human_while"
  /\ winner = None
  /\ board_before = create_board
  /\ \/ /\ meta_board = [p \in Cells |-> create_board]
        /\ meta_board_results = [p \in Cells |-> 0]
        /\ budget = OpeningMoves
     \/ \E r \in HumanPositions :
          /\ meta_board = r.meta_board
          /\ meta_board_results = r.meta_board_results
          /\ budget = HumanMoves

\* Line 349.
HumanWhileTest ==
  /\ pc = "human_while"
  /\ pc' = IF ~check_winner(meta_board_results, human_player)
              /\ ~check_winner(meta_board_results, bot_player)
           THEN "human_input" ELSE "human_return"
  /\ UNCHANGED <<meta_board, meta_board_results, current_player, current_board_pos,
                 status, winner, board_before, budget>>

\* Lines 356-372.  A digit beyond the indices makes the subscript of line 358
\* or of line 365 raise IndexError, which ends the program.
HumanMove ==
  /\ pc = "human_input"
  /\ budget > 0
  /\ \E x \in Digits, y \in Digits, i \in Digits, j \in Digits :
       IF x \notin Idx \/ y \notin Idx \/ i \notin Idx \/ j \notin Idx
       THEN /\ pc' = "raised"
            /\ UNCHANGED <<meta_board, meta_board_results, board_before>>
       ELSE LET board_pos == <<x, y>>
                cell_coord == <<i, j>>
                instance_board ==
                  [meta_board[board_pos] EXCEPT ![cell_coord] = human_player]
            IN  /\ meta_board' = [meta_board EXCEPT ![board_pos] = instance_board]
                /\ meta_board_results' =
                     IF check_winner(instance_board, human_player)
                     THEN update_meta_results(meta_board_results, board_pos, human_player)
                     ELSE meta_board_results
                /\ board_before' = meta_board[board_pos]
                /\ pc' = "bot_choose_board"
  /\ budget' = budget - 1
  /\ UNCHANGED <<current_player, current_board_pos, status, winner>>

\* Lines 375-376: one activation of choose_board called for the bot.
BotChooseBoard ==
  /\ pc = "bot_choose_board"
  /\ \E x \in Idx, y \in Idx :
       LET r == IF is_board_complete(meta_board_results)
                THEN reset_board(meta_board, meta_board_results, <<x, y>>)
                ELSE <<meta_board, meta_board_results>>
           current_choice == r[2][<<x, y>>]
       IN  /\ meta_board' = r[1]
           /\ meta_board_results' = r[2]
           /\ IF current_choice = 0
              THEN current_board_pos' = <<x, y>> /\ pc' = "bot_fill_cell"
              ELSE UNCHANGED <<current_board_pos, pc>>
  /\ UNCHANGED <<current_player, status, winner, board_before, budget>>

\* Line 377.
BotFillCell ==
  /\ pc = "bot_fill_cell"
  /\ budget > 0
  /\ \E o \in fill_cell(meta_board[current_board_pos], bot_player) :
       /\ meta_board' = [meta_board EXCEPT ![current_board_pos] = o[1]]
       /\ status' = o[2]
  /\ board_before' = meta_board[current_board_pos]
  /\ budget' = budget - 1
  /\ pc' = "bot_resolve"
  /\ UNCHANGED <<meta_board_results, current_player, current_board_pos, winner>>

\* Lines 379-385.
BotResolve ==
  /\ pc = "bot_resolve"
  /\ IF status = "FULL"
     THEN LET r == reset_board(meta_board, meta_board_results, current_board_pos)
          IN  meta_board' = r[1] /\ meta_board_results' = r[2]
     ELSE IF status = "OFFENSE"
          THEN /\ meta_board_results' =
                    update_meta_results(meta_board_results, current_board_pos, bot_player)
               /\ UNCHANGED meta_board
          ELSE UNCHANGED <<meta_board, meta_board_results>>
  /\ pc' = "human_while"
  /\ UNCHANGED <<current_player, current_board_pos, status, winner, board_before, budget>>

\* Lines 387-390.
HumanReturn ==
  /\ pc = "human_return"
  /\ winner' = IF check_winner(meta_board_results, bot_player)
               THEN bot_player ELSE human_player
  /\ pc' = "done"
  /\ UNCHANGED <<meta_board, meta_board_results, current_player, current_board_pos,
                 status, board_before, budget>>

play_meta_game ==
  \/ HumanWhileTest
  \/ HumanMove
  \/ BotChooseBoard
  \/ BotFillCell
  \/ BotResolve
  \/ HumanReturn

HumanSpec == HumanInit /\ [][play_meta_game]_vars

TypeOK ==
  /\ \A p \in Cells : \A c \in Cells : meta_board[p][c] \in Marks
  /\ \A p \in Cells : meta_board_results[p] \in Marks
  /\ status \in {"None", "OFFENSE", "DEFENSE", "RANDOM", "FULL"}

----------------------------------------------------------------------------
\* Vocabulary of the properties, stated on the cells directly.

Lines ==
  {{<<i, j>> : j \in Idx} : i \in Idx} \cup {{<<i, j>> : i \in Idx} : j \in Idx}
    \cup {{<<i, i>> : i \in Idx}, {<<i, Size - 1 - i>> : i \in Idx}}

HasLine(b, v) == \E l \in Lines : \A c \in l : b[c] = v

Opponent(v) == IF v = P1 THEN P2 ELSE P1

EmptyCells(b) == {c \in Cells : b[c] = 0}

\* The Empty cells of b that give v an immediate three-in-a-row.
WinCells(b, v) == {c \in EmptyCells(b) : HasLine([b EXCEPT ![c] = v], v)}

Changed(a, b) == {c \in Cells : a[c] # b[c]}

\* A call of fill_cell has just returned: board_before is the instance it was
\* given, board_after the instance as it is now.
Returned == pc = "while"
board_after == meta_board[current_board_pos]

----------------------------------------------------------------------------
\* C2: whenever some Empty cell completes a line of the acting player,
\* fill_cell returns OFFENSE, the one cell it wrote is such a cell, and the
\* player has a line afterwards -- whatever the order of the random picks.
C2_OffenseTakesWin ==
  (Returned /\ WinCells(board_before, current_player) # {}) =>
     /\ status = "OFFENSE"
     /\ \E c \in WinCells(board_before, current_player) :
          board_after = [board_before EXCEPT ![c] = current_player]
     /\ HasLine(board_after, current_player)

\* A win was taken on a board that also had Empty cells that win nothing.
C2_Witness ==
  /\ Returned
  /\ status = "OFFENSE"
  /\ WinCells(board_before, current_player) # {}
  /\ EmptyCells(board_before) \ WinCells(board_before, current_player) # {}
  /\ ~HasLine(board_before, current_player)

\* C3: when no Empty cell wins for the acting player but some Empty cell wins
\* for the opponent, fill_cell returns DEFENSE and writes the acting player's
\* own mark into exactly one cell, one of the opponent's winning cells.
C3_DefenseBlocks ==
  (/\ Returned
   /\ WinCells(board_before, current_player) = {}
   /\ WinCells(board_before, Opponent(current_player)) # {}) =>
     /\ status = "DEFENSE"
     /\ \E c \in WinCells(board_before, Opponent(current_player)) :
          board_after = [board_before EXCEPT ![c] = current_player]

\* A block was made on a board with at least two other Empty cells, so that
\* failed tries can precede the successful one.
C3_Witness ==
  /\ Returned
  /\ status = "DEFENSE"
  /\ WinCells(board_before, current_player) = {}
  /\ Cardinality(EmptyCells(board_before)
                   \ WinCells(board_before, Opponent(current_player))) >= 2
  /\ ~HasLine(board_before, Opponent(current_player))

\* C4 as stated: DEFENSE only without an own win, RANDOM only without an own
\* win and without an opponent's win, and every call writes exactly one cell.
C4_Original ==
  Returned =>
     /\ status = "DEFENSE" => WinCells(board_before, current_player) = {}
     /\ status = "RANDOM" =>
          /\ WinCells(board_before, current_player) = {}
          /\ WinCells(board_before, Opponent(current_player)) = {}
     /\ Cardinality(Changed(board_before, board_after)) = 1

\* C4 amended: the priorities as stated; a call on a board with an Empty cell
\* writes exactly one cell, a call on a board without one writes none.
C4_StrictPriority ==
  Returned =>
     /\ status = "DEFENSE" => WinCells(board_before, current_player) = {}
     /\ status = "RANDOM" =>
          /\ WinCells(board_before, current_player) = {}
          /\ WinCells(board_before, Opponent(current_player)) = {}
     /\ Cardinality(Changed(board_before, board_after)) =
          IF EmptyCells(board_before) = {} THEN 0 ELSE 1

\* A block was made on a board where the lower tier had cells to choose from.
C4_Witness ==
  /\ Returned
  /\ status = "DEFENSE"
  /\ WinCells(board_before, Opponent(current_player)) # {}
  /\ Cardinality(EmptyCells(board_before)) >= 3
  /\ Cardinality(Changed(board_before, board_after)) = 1

\* C5: a call changes at most one cell, which was Empty and now holds the
\* acting player's mark; a search that fails hands back the board it was
\* given; every cell of the real board stays one of 0, 1, -1.
C5_OneEmptyCellFilled ==
  Returned =>
     /\ Cardinality(Changed(board_before, board_after)) <= 1
     /\ \A c \in Changed(board_before, board_after) :
          board_before[c] = 0 /\ board_after[c] = current_player
     /\ \A o \in offensive_move(board_before, current_player) :
          ~o[2] => o[1] = board_before
     /\ \A d \in defensive_move(board_before, current_player) :
          ~d[2] => d[1] = board_before
     /\ \A c \in Cells : board_after[c] \in Marks

\* Both searches failed on a board with several Empty cells and a random
\* cell was filled.
C5_Witness ==
  /\ Returned
  /\ status = "RANDOM"
  /\ Cardinality(EmptyCells(board_before)) >= 4
  /\ Cardinality(Changed(board_before, board_after)) = 1

\* C6: fill_cell returns FULL exactly on a board without an Empty cell, and
\* then leaves the board as it was.
C6_FullIffNoEmptyCell ==
  Returned =>
     /\ status = "FULL" <=> EmptyCells(board_before) = {}
     /\ status = "FULL" => board_after = board_before
     /\ status \in {"OFFENSE", "DEFENSE", "RANDOM", "FULL"}

\* FULL was returned on a full board without a line.
C6_Witness ==
  /\ Returned
  /\ status = "FULL"
  /\ EmptyCells(board_before) = {}
  /\ ~HasLine(board_before, P1) /\ ~HasLine(board_before, P2)

----------------------------------------------------------------------------
\* Properties of the bot-vs-bot game.

MetaLine(q) == HasLine(meta_board_results, q)

Tie(b) == EmptyCells(b) = {} /\ ~HasLine(b, P1) /\ ~HasLine(b, P2)

\* C1: once meta_board_results holds a complete line of a player's mark the
\* game is over: the line stays, no instance is written or reset, and the
\* player returned is that player.
C1_MetaLineEndsGame ==
  /\ [][\A q \in {P1, P2} :
          MetaLine(q) => /\ HasLine(meta_board_results', q)
                         /\ meta_board' = meta_board
                         /\ meta_board_results' = meta_board_results]_vars
  /\ [](pc = "done" => MetaLine(winner))

\* C7: a meta-result that holds a mark stands on an instance with a line of
\* that mark, and a meta-result receives a mark only in the resolve step of an
\* OFFENSE move, at the position of the move, the mark being the mover's.
C7_MetaResultBackedByLine ==
  /\ [](\A p \in Cells :
          meta_board_results[p] # 0 => HasLine(meta_board[p], meta_board_results[p]))
  /\ [][\A p \in Cells :
          (meta_board_results'[p] # meta_board_results[p] /\ meta_board_results'[p] # 0) =>
             /\ pc = "resolve"
             /\ status = "OFFENSE"
             /\ p = current_board_pos
             /\ meta_board_results'[p] = current_player]_vars

\* The next player is about to choose after an OFFENSE move that completed a
\* line on its instance was claimed.
C7_Witness ==
  /\ pc = "choose_board"
  /\ status = "OFFENSE"
  /\ meta_board_results[current_board_pos] = Opponent(current_player)
  /\ ~HasLine(board_before, Opponent(current_player))
  /\ HasLine(meta_board[current_board_pos], Opponent(current_player))

\* C8: no step turns a meta-result from a mark back to 0, or clears an
\* instance, unless that instance was full without a line.
C8_RevertOnlyOnTie ==
  [][\A p \in Cells :
       (\/ meta_board_results[p] # 0 /\ meta_board_results'[p] = 0
        \/ meta_board[p] # create_board /\ meta_board'[p] = create_board)
         => Tie(meta_board[p])]_vars

\* C9: resolving a FULL move at position p leaves the instance at p all Empty
\* and its meta-result 0, changes no other instance and no other meta-result,
\* and is done before the next player and instance are chosen.
C9_FullResets ==
  [][(pc = "resolve" /\ status = "FULL") =>
       /\ meta_board'[current_board_pos] = create_board
       /\ meta_board_results'[current_board_pos] = 0
       /\ \A p \in Cells \ {current_board_pos} :
            meta_board'[p] = meta_board[p] /\ meta_board_results'[p] = meta_board_results[p]
       /\ pc' = "choose_player"
       /\ current_player' = current_player /\ current_board_pos' = current_board_pos]_vars

\* A full instance without a line was chosen, fill_cell returned FULL and the
\* instance has been replaced.
C9_Witness ==
  /\ pc = "choose_player"
  /\ status = "FULL"
  /\ Tie(board_before)
  /\ meta_board[current_board_pos] = create_board
  /\ meta_board_results[current_board_pos] = 0

\* C10: resolving an OFFENSE move at p by q sets meta_board_results[p] to q
\* and nothing else; resolving a DEFENSE or RANDOM move changes no meta-result;
\* neither changes an instance.
C10_ResolveFrame ==
  [][(pc = "resolve" /\ status \in {"OFFENSE", "DEFENSE", "RANDOM"}) =>
       /\ meta_board' = meta_board
       /\ meta_board_results' =
            IF status = "OFFENSE"
            THEN [meta_board_results EXCEPT ![current_board_pos] = current_player]
            ELSE meta_board_results]_vars

\* An OFFENSE move made in the model has been resolved, with open instances
\* beside it.
C10_Witness ==
  /\ pc = "choose_player"
  /\ status = "OFFENSE"
  /\ meta_board_results[current_board_pos] = current_player
  /\ budget < EndgameMoves
  /\ \E p \in Cells : meta_board_results[p] = 0

----------------------------------------------------------------------------
Saturated == \A p \in Cells : meta_board_results[p] # 0

\* C11: choose_board returns a position whose meta-result is 0 (the instance
\* handed on is meta_board at that position); it resets only when all nine
\* meta-results are non-zero, and then exactly the one instance it returns;
\* with some meta-result 0 it changes neither meta_board nor
\* meta_board_results.
C11_ChooseBoard ==
  [][pc = "choose_board" =>
       /\ pc' = "fill_cell" => meta_board_results'[current_board_pos'] = 0
       /\ pc' \in {"choose_board", "fill_cell"}
       /\ ~Saturated => meta_board' = meta_board /\ meta_board_results' = meta_board_results
       /\ Saturated =>
            /\ pc' = "fill_cell"
            /\ meta_board' = [meta_board EXCEPT ![current_board_pos'] = create_board]
            /\ meta_board_results' = [meta_board_results EXCEPT ![current_board_pos'] = 0]]_vars

\* choose_board has returned the one instance it reset: the last move was an
\* OFFENSE whose claim made the ninth meta-result non-zero, the other eight
\* are still decided and the returned instance is cleared.
C11_Witness ==
  /\ pc = "fill_cell"
  /\ status = "OFFENSE"
  /\ meta_board_results[current_board_pos] = 0
  /\ meta_board[current_board_pos] = create_board
  /\ \A p \in Cells \ {current_board_pos} : meta_board_results[p] # 0
  /\ budget < EndgameMoves

----------------------------------------------------------------------------
\* The shape of a turn: every change of current_player (choose_player) is
\* followed by the retries of choose_board, one fill_cell call, the while
\* test and the resolve step, in this order.
TurnShape ==
  /\ pc = "choose_player" => pc' = "choose_board"
  /\ pc = "choose_board" => pc' \in {"choose_board", "fill_cell"}
  /\ pc = "fill_cell" => pc' = "while"
  /\ pc = "while" => pc' \in {"resolve", "return"}
  /\ pc = "resolve" => pc' = "choose_player"
  /\ current_player' # current_player => pc = "choose_player"

\* The cells of all instances that go from Empty to a mark in a step.
Placed == {pc_ \in Cells \X Cells :
             meta_board[pc_[1]][pc_[2]] = 0 /\ meta_board'[pc_[1]][pc_[2]] # 0}

\* C13 as stated: in every turn exactly one cell of all nine instances goes
\* from Empty to the acting player's mark.
C13_Original ==
  [][/\ TurnShape
     /\ pc # "fill_cell" => Placed = {}
     /\ pc = "fill_cell" =>
          /\ Cardinality(Placed) = 1
          /\ \A q \in Placed : meta_board'[q[1]][q[2]] = current_player]_vars

\* C13 amended: in every turn at most one cell goes from Empty to the acting
\* player's mark, in the chosen instance; exactly one when the chosen instance
\* has an Empty cell, none when it has not (fill_cell returns FULL).
C13_OneMarkPerTurn ==
  [][/\ TurnShape
     /\ pc # "fill_cell" => Placed = {}
     /\ pc = "fill_cell" =>
          /\ Cardinality(Placed) =
               IF EmptyCells(meta_board[current_board_pos]) = {} THEN 0 ELSE 1
          /\ status' = "FULL" <=> Placed = {}
          /\ \A q \in Placed :
               q[1] = current_board_pos /\ meta_board'[q[1]][q[2]] = current_player]_vars

\* A turn of the game has passed on a full instance without a line: FULL,
\* no mark placed.
C13_Witness ==
  /\ pc = "while"
  /\ status = "FULL"
  /\ Tie(board_before)
  /\ board_after = board_before
  /\ budget < EndgameMoves

\* C14: the first mover is P1 or P2, and every later fill_cell call is made
\* for the opponent of the player of the call before, whatever the status of
\* that call and whether or not an instance was reset.
C14_TurnsAlternate ==
  [][/\ TurnShape
     /\ pc = "choose_player" =>
          IF current_player = None
          THEN current_player' \in {P1, P2}
          ELSE current_player' = Opponent(current_player)]_vars

\* The player after a FULL turn, whose instance was reset, is about to move.
C14_Witness ==
  /\ pc = "fill_cell"
  /\ status = "FULL"
  /\ current_player \in {P1, P2}
  /\ budget < EndgameMoves
  /\ budget > 0

----------------------------------------------------------------------------
\* C15: for every 3x3 array B and mark m of a player, check_winner(B, m) holds
\* exactly when a row, a column or a diagonal of B is all m; cells holding the
\* other mark, 0 or the tracker value never count.  So the while test leaves
\* the loop exactly on arrays with a line, and P2 is returned exactly when P2
\* has one.
C15_CheckWinnerIffLine ==
  /\ \A m \in {P1, P2} :
       check_winner(meta_board_results, m) <=> HasLine(meta_board_results, m)
  /\ pc = "resolve" => ~MetaLine(P1) /\ ~MetaLine(P2)
  /\ pc \in {"return", "done"} => MetaLine(P1) \/ MetaLine(P2)
  /\ pc = "done" => (winner = P2 <=> MetaLine(P2))

\* P1 was returned on an array with a line of P1 and another line that holds
\* two marks of P2 and a tracker value.
C15_Witness ==
  /\ pc = "done"
  /\ winner = P1
  /\ MetaLine(P1)
  /\ \E l \in Lines :
       /\ Cardinality({c \in l : meta_board_results[c] = P2}) = 2
       /\ \E c \in l : meta_board_results[c] = Tracker

\* C16: check_winner called with the Empty mark 0 is false on every array,
\* also on arrays with an all-Empty row, column or diagonal.
C16_NoWinForEmpty ==
  /\ ~check_winner(meta_board_results, 0)
  /\ \A p \in Cells : ~check_winner(meta_board[p], 0)

\* C17: a human move that names a cell holding a mark is rejected.  A step of
\* the human's turn changes no cell that holds a mark and no meta-result that
\* is decided.
C17_OccupiedCellRejected ==
  [][pc = "human_input" =>
       /\ \A p \in Cells : \A c \in Cells :
            meta_board[p][c] # 0 => meta_board'[p][c] = meta_board[p][c]
       /\ \A p \in Cells :
            meta_board_results[p] # 0 =>
              meta_board_results'[p] = meta_board_results[p]]_vars

\* C18: the meta-win test follows the resolve step of every move.  Once a
\* player holds a line of meta-results no instance is selected, no instance is
\* reset and no cell is written.
C18_WinTestBeforeNextMove ==
  [][MetaLine(P1) \/ MetaLine(P2) =>
       /\ pc' # "fill_cell"
       /\ current_board_pos' = current_board_pos
       /\ meta_board' = meta_board
       /\ meta_board_results' = meta_board_results]_vars

\* The human's last write put the human's mark on an empty cell of an
\* instance.
HumanPlacedOnEmpty ==
  \E p \in Cells : \E c \in EmptyCells(board_before) :
    meta_board[p] = [board_before EXCEPT ![c] = human_player]

\* C19: in the game against a human the player with the first line of
\* meta-results is returned.  When the human's move, made on an empty cell,
\* leaves the human with such a line, the bot has no instance selected and
\* does not move; at the end not both players hold a line, and the player
\* returned holds one.
C19_FirstLineWins ==
  /\ (MetaLine(human_player) /\ HumanPlacedOnEmpty) =>
       pc \notin {"bot_fill_cell", "bot_resolve"}
  /\ pc = "done" => ~(MetaLine(human_player) /\ MetaLine(bot_player))
  /\ pc = "done" => MetaLine(winner)

\* C20: in the game of the two bots the instance handed to fill_cell holds no
\* line of either mark, the meta-results never hold a line of both marks, an
\* OFFENSE move wrote one cell that completed a line the instance did not have
\* before, and the player returned is the only one with a line of meta-results.
C20_BotGameInvariant ==
  /\ pc = "fill_cell" =>
       /\ ~HasLine(meta_board[current_board_pos], P1)
       /\ ~HasLine(meta_board[current_board_pos], P2)
  /\ ~(MetaLine(P1) /\ MetaLine(P2))
  /\ (Returned /\ status = "OFFENSE") =>
       /\ ~HasLine(board_before, P1)
       /\ ~HasLine(board_before, P2)
       /\ Cardinality(Changed(board_before, board_after)) = 1
       /\ HasLine(board_after, current_player)
  /\ pc = "done" => MetaLine(winner) /\ ~MetaLine(Opponent(winner))

\* A player was returned after the other player's last move, an OFFENSE that
\* completed a line in an instance without one; only the returned player holds
\* a line of meta-results.
C20_Witness ==
  /\ pc = "done"
  /\ status = "OFFENSE"
  /\ current_player = Opponent(winner)
  /\ ~HasLine(board_before, current_player)
  /\ HasLine(board_after, current_player)
  /\ MetaLine(winner)

====
